---- MODULE Spec2Model ----
(***************************************************************************)
(* Model of dora-hardware/example_test/cxx_ros2_dataflow/run.rs: the       *)
(* build-and-run driver of the C++ ROS2 dataflow example.  `main` is a     *)
(* straight-line async function; every `.await` on an external operation   *)
(* is split into the step that issues the operation and the step that      *)
(* observes its completion.  The environment (host OS, the CARGO variable, *)
(* the files on disk, the outcome of every external operation) is chosen   *)
(* nondeterministically.                                                   *)
(***************************************************************************)
EXTENDS Integers, Sequences, FiniteSets, TLC

VARIABLES
    os,        \* compilation target: decides cfg!(windows), #[cfg(target_os)], EXE_SUFFIX
    env_cargo, \* value of the CARGO environment variable, or NotPresent
    mode,      \* "main": a run of main;  "unit": one function called on its own
    pc,        \* the statement the driver is at
    k,         \* which of the unrolled copies / canonicalize calls is next
    cwd,       \* the driver process's current working directory
    fs,        \* filesystem: path -> [kind, origin]
    frame,     \* parameters of the function being called, and where it returns to
    canon,     \* the canonicalized compile inputs collected so far (run.rs:50-52)
    inflight,  \* external operations issued and not yet completed
    trace,     \* events so far: <<[ev |-> "start"|"ok"|"fail", op |-> ...]>>
    cmds,      \* subprocesses spawned so far: [program, args, dir, status]
    logs,      \* tracing events emitted so far: [level, message]
    result     \* what the process ends with: [kind, chain]

vars ==
    <<os, env_cargo, mode, pc, k, cwd, fs, frame, canon, inflight, trace, cmds, logs, result>>

----------------------------------------------------------------------------
(* Bounds of the function-level specification. *)

MaxFeatures == 2
MaxArgs == 2
MaxPaths == 2

----------------------------------------------------------------------------
(* Paths: a path is the sequence of its components; an absolute path       *)
(* starts with the root component "/".                                     *)

NotPresent == "<NotPresent>"

IsAbsolute(p) == p # <<>> /\ p[1] = "/"

\* Path::join: an absolute right-hand side replaces the left-hand side.
Join(p, q) == IF IsAbsolute(q) THEN q ELSE p \o q

\* Path::parent: None for the empty path and for the root.
Parent(p) ==
    IF p = <<>> \/ p = <<"/">>
    THEN [some |-> FALSE, path |-> <<>>]
    ELSE [some |-> TRUE, path |-> SubSeq(p, 1, Len(p) - 1)]

RECURSIVE Norm(_, _)
\* Resolution of ".." components, as the OS does when it opens a path.
Norm(done, rest) ==
    IF rest = <<>> THEN done
    ELSE IF Head(rest) = ".." /\ Len(done) > 1
         THEN Norm(SubSeq(done, 1, Len(done) - 1), Tail(rest))
         ELSE IF Head(rest) = ".."
              THEN Norm(done, Tail(rest))
              ELSE Norm(Append(done, Head(rest)), Tail(rest))

\* The file a (possibly relative) path names for a process whose directory is dir.
Real(dir, p) == Norm(<<>>, Join(dir, p))

RECURSIVE JoinStr(_, _)
\* [&str]::join(sep)
JoinStr(s, sep) ==
    IF s = <<>> THEN ""
    ELSE IF Len(s) = 1 THEN s[1]
         ELSE s[1] \o sep \o JoinStr(Tail(s), sep)

\* The OsStr a Path turns into when it is passed as a command argument.
PathArg(p) ==
    IF IsAbsolute(p) THEN "/" \o JoinStr(Tail(p), "/") ELSE JoinStr(p, "/")

----------------------------------------------------------------------------
(* Program constants. *)

OSes == {"linux", "macos", "windows", "other"}

\* std::env::consts::EXE_SUFFIX
EXE_SUFFIX(o) == IF o = "windows" THEN ".exe" ELSE ""

\* env!("CARGO_MANIFEST_DIR")
ManifestDir == <<"/", "ws">>

\* file!()
ThisFile == <<"dora-hardware", "example_test", "cxx_ros2_dataflow", "run.rs">>

\* root.join(file!()).parent().unwrap()
ExampleRoot == Parent(Join(ManifestDir, ThisFile)).path

\* The directory the process is started in.
StartDir == ManifestDir

\* target.join("cxxbridge").join("dora-node-api-cxx")
NodeCxxbridge == Join(Join(Join(ManifestDir, <<"target">>), <<"cxxbridge">>), <<"dora-node-api-cxx">>)

\* Faulty variant: the copy statements of a source and its header are swapped.
GeneratedArtifactsSwapped ==
    <<"dora-node-api.h", "dora-node-api.cc", "dora-ros2-bindings.cc", "dora-ros2-bindings.h">>

\* The four files copied, in the order of the four copy statements.
GeneratedArtifacts ==
    <<"dora-node-api.cc", "dora-node-api.h", "dora-ros2-bindings.cc", "dora-ros2-bindings.h">>

\* Path::new("build")
BuildDir == <<"build">>

\* Faulty variant: the two staged sources are canonicalized in the other order.
CompileInputsSwapped ==
    << <<"node-rust-api", "main.cc">>,
       Join(BuildDir, <<"dora-node-api.cc">>),
       Join(BuildDir, <<"dora-ros2-bindings.cc">>) >>

\* The three compile inputs, in the order they are canonicalized.
CompileInputs ==
    << <<"node-rust-api", "main.cc">>,
       Join(BuildDir, <<"dora-ros2-bindings.cc">>),
       Join(BuildDir, <<"dora-node-api.cc">>) >>

----------------------------------------------------------------------------
(* Command lines. *)

\* Faulty variant: --features is passed whether or not there are features.
BuildPackageArgsAlwaysFeatures(package, features) ==
    <<"build", "--package", package, "--features", JoinStr(features, ",")>>

\* build_package: the arguments given to the CARGO program.
BuildPackageArgs(package, features) ==
    <<"build", "--package", package>>
        \o (IF features # <<>> THEN <<"--features", JoinStr(features, ",")>> ELSE <<>>)

\* build_cxx_node: the #[cfg(target_os = ...)] blocks.
PlatformArgs(o) ==
    CASE o = "linux" -> <<"-l", "m", "-l", "rt", "-l", "dl", "-pthread">>
      [] o = "windows" ->
            <<"-ladvapi32", "-luserenv", "-lkernel32", "-lws2_32", "-lbcrypt", "-lncrypt",
              "-lschannel", "-lntdll", "-liphlpapi",
              "-lcfgmgr32", "-lcredui", "-lcrypt32", "-lcryptnet", "-lfwpuclnt", "-lgdi32",
              "-lmsimg32", "-lmswsock", "-lole32", "-lopengl32", "-lsecur32", "-lshell32",
              "-lsynchronization", "-luser32", "-lwinspool",
              "-Wl,-nodefaultlib:libcmt", "-D_DLL", "-lmsvcrt">>
      [] o = "macos" ->
            <<"-framework", "CoreServices", "-framework", "Security",
              "-l", "System", "-l", "resolv", "-l", "pthread", "-l", "c", "-l", "m">>
      [] OTHER -> <<>>

\* Path::new("../build").join(format!("{out_name}{EXE_SUFFIX}"))
OutputPath(o, out_name) == Join(<<"..", "build">>, <<out_name \o EXE_SUFFIX(o)>>)

\* Faulty variant: the caller's flags are added before the platform's.
ClangArgsCallerFirst(o, root, paths, out_name, args) ==
    [i \in 1..Len(paths) |-> PathArg(paths[i])]
        \o <<"-std=c++17">>
        \o args
        \o PlatformArgs(o)
        \o <<"-L", PathArg(Join(Join(root, <<"target">>), <<"debug">>))>>
        \o <<"--output", PathArg(OutputPath(o, out_name))>>

\* build_cxx_node: the arguments given to clang++.
ClangArgs(o, root, paths, out_name, args) ==
    [i \in 1..Len(paths) |-> PathArg(paths[i])]
        \o <<"-std=c++17">>
        \o PlatformArgs(o)
        \o args
        \o <<"-L", PathArg(Join(Join(root, <<"target">>), <<"debug">>))>>
        \o <<"--output", PathArg(OutputPath(o, out_name))>>

\* build_cxx_node: the directory clang++ runs in.  Command::current_dir sets the
\* child's directory only; without it the child inherits the driver's.
ClangDir(dir, paths) ==
    IF Parent(paths[1]).some THEN Parent(paths[1]).path ELSE dir

\* run_dataflow: the arguments given to the CARGO program.
RunDataflowArgs(dataflow) ==
    <<"run", "--package", "dora-cli", "--", "daemon", "--run-dataflow", PathArg(dataflow)>>

----------------------------------------------------------------------------
(* Results.  An eyre::Report is the chain of its messages, outermost first. *)

Running == [kind |-> "Running", chain |-> <<>>]

Ok == [kind |-> "Ok", chain |-> <<>>]

Err(chain) == [kind |-> "Err", chain |-> chain]

\* A panic unwinds out of main: the process aborts without returning a Result.
Panicked(msg) == [kind |-> "Panic", chain |-> <<msg>>]

\* std::io::Error converted by `?`: the OS's message, nothing added.
IoError == <<"os error">>

\* WrapErr::wrap_err
WrapErr(chain, msg) == <<msg>> \o chain

\* bail!(msg)
Bail(msg) == <<msg>>

\* unwrap of the Err of std::env::var for a variable that is not set
UnwrapNotPresent == "called Result::unwrap() on an Err value: NotPresent"

\* paths[0] on an empty slice
IndexOutOfBounds == "index out of bounds: the len is 0 but the index is 0"

Ev(e, op) == [ev |-> e, op |-> op]

WindowsNotice == "The c++ example does not work on Windows currently because of a linker error"

\* tracing::error!(...)
TracingError(message) == [level |-> "ERROR", message |-> message]

----------------------------------------------------------------------------
(* The filesystem. *)

File(kind, origin) == [kind |-> kind, origin |-> origin]

MainCc == Real(ExampleRoot, CompileInputs[1])

BuildPath == Real(ExampleRoot, BuildDir)

StagedPath(i) == Real(ExampleRoot, Join(BuildDir, <<GeneratedArtifacts[i]>>))

GeneratedPath(i) == Join(NodeCxxbridge, <<GeneratedArtifacts[i]>>)

\* What an earlier, complete run of this driver has left in build/.
LeftBehind(o) ==
    {BuildPath} \cup {StagedPath(i) : i \in 1..Len(GeneratedArtifacts)}
        \cup {Real(Real(ExampleRoot, <<"node-rust-api">>), OutputPath(o, "node_rust_api"))}

KindOf(o, p) ==
    IF p \in {ExampleRoot, BuildPath} THEN "dir"
    ELSE IF p = Real(Real(ExampleRoot, <<"node-rust-api">>), OutputPath(o, "node_rust_api"))
         THEN "exe" ELSE "file"

\* The disk before the run: the checkout, with or without the node's source, and
\* with or without the leftovers of an earlier run.
InitialFs(o, main_cc, stale) ==
    LET repo == {ExampleRoot} \cup (IF main_cc THEN {MainCc} ELSE {})
        prev == IF stale THEN LeftBehind(o) ELSE {}
    IN  [p \in repo \cup prev |->
            File(KindOf(o, p), IF p \in prev THEN "prev" ELSE "repo")]

Exists(f, p) == p \in DOMAIN f

\* A write of path p: creates or replaces.
Write(f, p, v) == [q \in DOMAIN f \cup {p} |-> IF q = p THEN v ELSE f[q]]

\* create_dir_all: creates the directory unless it is there.
CreateDirAll(f, p) == IF Exists(f, p) THEN f ELSE Write(f, p, File("dir", "create_dir_all"))

\* fs::copy: the destination gets the source's content.
CopyFile(f, from, to) == Write(f, to, File(f[from].kind, "copy"))

\* The dependency's build script writes the bridge sources it generates.
Generate(f, gen) ==
    [q \in DOMAIN f \cup {GeneratedPath(i) : i \in gen} |->
        IF q \in {GeneratedPath(i) : i \in gen} THEN File("file", "cargo") ELSE f[q]]

\* The compiler writes the executable named by --output, relative to its directory.
Link(f, dir, out) == Write(f, Real(dir, out), File("exe", "clang++"))

----------------------------------------------------------------------------
(* Call frames. *)

NoFrame ==
    [fn |-> "main", package |-> "", features |-> <<>>, root |-> <<>>, paths |-> <<>>,
     out_name |-> "", args |-> <<>>, dataflow |-> <<>>, ret |-> "exit"]

BuildPackageFrame(package, features, ret) ==
    [NoFrame EXCEPT !.fn = "build_package", !.package = package, !.features = features,
                    !.ret = ret]

BuildCxxNodeFrame(root, paths, out_name, args, ret) ==
    [NoFrame EXCEPT !.fn = "build_cxx_node", !.root = root, !.paths = paths,
                    !.out_name = out_name, !.args = args, !.ret = ret]

RunDataflowFrame(dataflow, ret) ==
    [NoFrame EXCEPT !.fn = "run_dataflow", !.dataflow = dataflow, !.ret = ret]

----------------------------------------------------------------------------
(* Steps shared by the statements. *)

\* Faulty variant: the `?` is missing, so an Err is dropped and control goes on.
TryIgnoresErr(ok, chain, next) ==
    /\ pc' = next
    /\ result' = IF next = "exit" THEN Ok ELSE result

\* The `?` operator (and a function's final Ok(())): on Err the error is returned
\* from main at once; on Ok control goes on to `next`.
Try(ok, chain, next) ==
    /\ pc' = IF ok THEN next ELSE "exit"
    /\ result' = IF ok THEN (IF next = "exit" THEN Ok ELSE result) ELSE Err(chain)

\* A panic: the process aborts where it stands.
Panic(msg) ==
    /\ pc' = "exit"
    /\ result' = Panicked(msg)

\* An external operation is issued and awaited: nothing else is issued meanwhile.
Issue(op, await) ==
    /\ inflight' = inflight \cup {op}
    /\ pc' = await

\* The awaited operation completes.
Complete(op, ok) ==
    /\ inflight' = inflight \ {op}
    /\ trace' = Append(trace, Ev(IF ok THEN "ok" ELSE "fail", op))

\* A synchronous call: it has returned when the statement is over.
Sync(op, ok) ==
    trace' = trace \o <<Ev("start", op), Ev(IF ok THEN "ok" ELSE "fail", op)>>

Outcomes == {"spawn_error", "nonzero", "zero"}

\* `cmd.status().await?.success()`: an error of spawn/wait is passed on by `?`, a
\* non-zero exit status is turned into the bail! message.
StatusError(outcome, msg) == IF outcome = "spawn_error" THEN IoError ELSE Bail(msg)

CopyOp(i) == "copy " \o GeneratedArtifacts[i]

CanonOp(i) == "canonicalize " \o PathArg(CompileInputs[i])

----------------------------------------------------------------------------
(* main *)

\* Faulty variant: the Result of set_up_tracing is dropped.
SetUpTracingUnchecked ==
    /\ pc = "set_up_tracing"
    /\ \E ok \in BOOLEAN : Sync("set_up_tracing", ok)
    /\ pc' = "cfg_windows"
    /\ UNCHANGED <<os, env_cargo, mode, k, cwd, fs, frame, canon, inflight, cmds, logs, result>>

\* set_up_tracing("c++-ros2-dataflow-exaple").wrap_err("failed to set up tracing")?
SetUpTracing ==
    /\ pc = "set_up_tracing"
    /\ \E ok \in BOOLEAN :
        /\ Sync("set_up_tracing", ok)
        /\ Try(ok, WrapErr(<<"tracing subscriber error">>, "failed to set up tracing"),
               "cfg_windows")
    /\ UNCHANGED <<os, env_cargo, mode, k, cwd, fs, frame, canon, inflight, cmds, logs>>

\* Faulty variant: the platform check is missing.
CfgWindowsNoSkip ==
    /\ pc = "cfg_windows"
    /\ logs' = logs
    /\ pc' = "set_current_dir"
    /\ UNCHANGED <<os, env_cargo, mode, k, cwd, fs, frame, canon, inflight, trace, cmds, result>>

\* if cfg!(windows) { tracing::error!(...); return Ok(()); }
CfgWindows ==
    /\ pc = "cfg_windows"
    /\ IF os = "windows"
       THEN /\ logs' = Append(logs, TracingError(WindowsNotice))
            /\ Try(TRUE, <<>>, "exit")
       ELSE /\ logs' = logs
            /\ Try(TRUE, <<>>, "set_current_dir")
    /\ UNCHANGED <<os, env_cargo, mode, k, cwd, fs, frame, canon, inflight, trace, cmds>>

\* Faulty variant: the working directory is set to `root` itself.
SetCurrentDirToRoot ==
    /\ pc = "set_current_dir"
    /\ \E ok \in BOOLEAN :
        /\ trace' = trace \o <<Ev("start", "set_current_dir"),
                                Ev(IF ok THEN "ok" ELSE "fail", "set_current_dir")>>
        /\ cwd' = IF ok THEN ManifestDir ELSE cwd
        /\ pc' = IF ok THEN "create_dir_all" ELSE "exit"
        /\ result' = IF ok THEN result
                     ELSE Err(WrapErr(IoError, "failed to set working dir"))
    /\ UNCHANGED <<os, env_cargo, mode, k, fs, frame, canon, inflight, cmds, logs>>

\* std::env::set_current_dir(root.join(file!()).parent().unwrap())
\*     .wrap_err("failed to set working dir")?
SetCurrentDir ==
    /\ pc = "set_current_dir"
    /\ \E ok \in BOOLEAN :
        /\ Sync("set_current_dir", ok)
        /\ cwd' = IF ok THEN ExampleRoot ELSE cwd
        /\ Try(ok, WrapErr(IoError, "failed to set working dir"), "create_dir_all")
    /\ UNCHANGED <<os, env_cargo, mode, k, fs, frame, canon, inflight, cmds, logs>>

\* tokio::fs::create_dir_all("build") is issued ...
CreateDirAllStart ==
    /\ pc = "create_dir_all"
    /\ Issue("create_dir_all", "create_dir_all.await")
    /\ trace' = Append(trace, Ev("start", "create_dir_all"))
    /\ UNCHANGED <<os, env_cargo, mode, k, cwd, fs, frame, canon, cmds, logs, result>>

\* Faulty variant: the Result of create_dir_all is dropped.
CreateDirAllDoneUnchecked ==
    /\ pc = "create_dir_all.await"
    /\ \E ok \in BOOLEAN :
        /\ Complete("create_dir_all", ok)
        /\ fs' = IF ok THEN CreateDirAll(fs, Real(cwd, BuildDir)) ELSE fs
    /\ pc' = "call build_package"
    /\ UNCHANGED <<os, env_cargo, mode, k, cwd, frame, canon, cmds, logs, result>>

\* ... .await?
CreateDirAllDone ==
    /\ pc = "create_dir_all.await"
    /\ \E ok \in BOOLEAN :
        /\ Complete("create_dir_all", ok)
        /\ fs' = IF ok THEN CreateDirAll(fs, Real(cwd, BuildDir)) ELSE fs
        /\ Try(ok, IoError, "call build_package")
    /\ UNCHANGED <<os, env_cargo, mode, k, cwd, frame, canon, cmds, logs>>

\* Faulty variant: the call of build_package is left out.
CallBuildPackageSkipped ==
    /\ pc = "call build_package"
    /\ pc' = "copy"
    /\ UNCHANGED <<os, env_cargo, mode, k, cwd, fs, frame, canon, inflight, trace, cmds, logs,
                   result>>

\* build_package("dora-node-api-cxx", &["ros2-bridge"]) is called
CallBuildPackage ==
    /\ pc = "call build_package"
    /\ frame' = BuildPackageFrame("dora-node-api-cxx", <<"ros2-bridge">>, "copy")
    /\ pc' = "build_package"
    /\ UNCHANGED <<os, env_cargo, mode, k, cwd, fs, canon, inflight, trace, cmds, logs, result>>

\* Faulty variant: a copy and the one after it are issued together (join!).
CopyStartConcurrent ==
    /\ pc = "copy"
    /\ LET both == {CopyOp(i) : i \in {k, k + 1} \cap (1..Len(GeneratedArtifacts))}
       IN  /\ inflight' = inflight \cup both
           /\ trace' = trace \o [i \in 1..Cardinality(both) |-> Ev("start", CopyOp(k + i - 1))]
    /\ pc' = "copy.await"
    /\ UNCHANGED <<os, env_cargo, mode, k, cwd, fs, frame, canon, cmds, logs, result>>

\* tokio::fs::copy(node_cxxbridge.join(f), build_dir.join(f)) is issued, for the
\* k-th of the four files
CopyStart ==
    /\ pc = "copy"
    /\ Issue(CopyOp(k), "copy.await")
    /\ trace' = Append(trace, Ev("start", CopyOp(k)))
    /\ UNCHANGED <<os, env_cargo, mode, k, cwd, fs, frame, canon, cmds, logs, result>>

\* Faulty variant: a failed copy removes what the run has staged so far.
CopyDoneCleansUp ==
    /\ pc = "copy.await"
    /\ \E ok \in BOOLEAN :
        /\ ok => Exists(fs, GeneratedPath(k))
        /\ Complete(CopyOp(k), ok)
        /\ fs' = IF ok
                 THEN CopyFile(fs, GeneratedPath(k),
                               Real(cwd, Join(BuildDir, <<GeneratedArtifacts[k]>>)))
                 ELSE [q \in {r \in DOMAIN fs : fs[r].origin # "copy"} |-> fs[q]]
        /\ Try(ok, IoError, IF k < Len(GeneratedArtifacts) THEN "copy" ELSE "canonicalize")
        /\ k' = IF ~ok THEN k ELSE IF k < Len(GeneratedArtifacts) THEN k + 1 ELSE 1
    /\ UNCHANGED <<os, env_cargo, mode, cwd, frame, canon, cmds, logs>>

\* Faulty variant: the copy's Result is dropped (`let _ = ... .await;`).
CopyDoneUnchecked ==
    /\ pc = "copy.await"
    /\ \E ok \in BOOLEAN :
        /\ ok => Exists(fs, GeneratedPath(k))
        /\ inflight' = inflight \ {CopyOp(k)}
        /\ trace' = Append(trace, Ev(IF ok THEN "ok" ELSE "fail", CopyOp(k)))
        /\ fs' = IF ok
                 THEN CopyFile(fs, GeneratedPath(k),
                               Real(cwd, Join(BuildDir, <<GeneratedArtifacts[k]>>)))
                 ELSE fs
        /\ pc' = IF k < Len(GeneratedArtifacts) THEN "copy" ELSE "canonicalize"
        /\ k' = IF k < Len(GeneratedArtifacts) THEN k + 1 ELSE 1
    /\ UNCHANGED <<os, env_cargo, mode, cwd, frame, canon, cmds, logs, result>>

\* ... .await?  A copy whose source does not exist fails.
CopyDone ==
    /\ pc = "copy.await"
    /\ \E ok \in BOOLEAN :
        /\ ok => Exists(fs, GeneratedPath(k))
        /\ Complete(CopyOp(k), ok)
        /\ fs' = IF ok
                 THEN CopyFile(fs, GeneratedPath(k),
                               Real(cwd, Join(BuildDir, <<GeneratedArtifacts[k]>>)))
                 ELSE fs
        /\ Try(ok, IoError, IF k < Len(GeneratedArtifacts) THEN "copy" ELSE "canonicalize")
        /\ k' = IF ~ok THEN k ELSE IF k < Len(GeneratedArtifacts) THEN k + 1 ELSE 1
    /\ UNCHANGED <<os, env_cargo, mode, cwd, frame, canon, cmds, logs>>

\* &dunce::canonicalize(...)?, for the k-th of the three compile inputs
Canonicalize ==
    /\ pc = "canonicalize"
    /\ \E ok \in BOOLEAN :
        /\ ok => Exists(fs, Real(cwd, CompileInputs[k]))
        /\ Sync(CanonOp(k), ok)
        /\ canon' = IF ok THEN Append(canon, Real(cwd, CompileInputs[k])) ELSE canon
        /\ Try(ok, IoError,
               IF k < Len(CompileInputs) THEN "canonicalize" ELSE "call build_cxx_node")
        /\ k' = IF ok /\ k < Len(CompileInputs) THEN k + 1 ELSE k
    /\ UNCHANGED <<os, env_cargo, mode, cwd, fs, frame, inflight, cmds, logs>>

\* build_cxx_node(root, &[...], "node_rust_api", &["-l", "dora_node_api_cxx"]) is called
CallBuildCxxNode ==
    /\ pc = "call build_cxx_node"
    /\ frame' = BuildCxxNodeFrame(ManifestDir, canon, "node_rust_api",
                                  <<"-l", "dora_node_api_cxx">>, "call run_dataflow")
    /\ pc' = "build_cxx_node"
    /\ UNCHANGED <<os, env_cargo, mode, k, cwd, fs, canon, inflight, trace, cmds, logs, result>>

\* run_dataflow(&dataflow) is called, with dataflow = Path::new("dataflow.yml")
CallRunDataflow ==
    /\ pc = "call run_dataflow"
    /\ frame' = RunDataflowFrame(<<"dataflow.yml">>, "return Ok")
    /\ pc' = "run_dataflow"
    /\ UNCHANGED <<os, env_cargo, mode, k, cwd, fs, canon, inflight, trace, cmds, logs, result>>

\* Ok(())
ReturnOk ==
    /\ pc = "return Ok"
    /\ Try(TRUE, <<>>, "exit")
    /\ UNCHANGED <<os, env_cargo, mode, k, cwd, fs, frame, canon, inflight, trace, cmds, logs>>

----------------------------------------------------------------------------
(* build_package *)

\* A spawned command; status is what cmd.status().await has given so far.
Command(program, args, dir) ==
    [program |-> program, args |-> args, dir |-> dir, status |-> "running"]

\* cmd.status().await of the command spawned last: an Err, or its exit status.
Status(cs, outcome) == [cs EXCEPT ![Len(cs)].status = outcome]

\* let cargo = std::env::var("CARGO").unwrap(); ...; cmd.status() is issued
BuildPackageSpawn ==
    /\ pc = "build_package"
    /\ IF env_cargo = NotPresent
       THEN /\ Panic(UnwrapNotPresent)
            /\ trace' = trace \o <<Ev("enter", "build_package"), Ev("panic", "build_package")>>
            /\ UNCHANGED <<inflight, cmds>>
       ELSE /\ cmds' = Append(cmds, Command(env_cargo,
                                            BuildPackageArgs(frame.package, frame.features),
                                            cwd))
            /\ Issue("cargo build", "build_package.await")
            /\ trace' = trace \o <<Ev("enter", "build_package"), Ev("start", "cargo build")>>
            /\ UNCHANGED result
    /\ UNCHANGED <<os, env_cargo, mode, k, cwd, fs, frame, canon, logs>>

\* if !cmd.status().await?.success() { bail!("failed to compile {package}") }; Ok(())
\* A build that succeeds leaves the bridge sources it generated in target/cxxbridge;
\* which of them are there when the copies run is up to the environment.
BuildPackageDone ==
    /\ pc = "build_package.await"
    /\ \E outcome \in Outcomes, gen \in SUBSET (1..Len(GeneratedArtifacts)) :
        /\ cmds' = Status(cmds, outcome)
        /\ outcome # "zero" => gen = {}
        /\ Complete("cargo build", outcome = "zero")
        /\ fs' = Generate(fs, gen)
        /\ Try(outcome = "zero",
               StatusError(outcome, "failed to compile " \o frame.package),
               frame.ret)
    /\ UNCHANGED <<os, env_cargo, mode, k, cwd, frame, canon, logs>>

----------------------------------------------------------------------------
(* build_cxx_node *)

\* clang is assembled; paths[0] is read; clang.status() is issued
BuildCxxNodeSpawn ==
    /\ pc = "build_cxx_node"
    /\ IF frame.paths = <<>>
       THEN /\ Panic(IndexOutOfBounds)
            /\ trace' = trace \o <<Ev("enter", "build_cxx_node"), Ev("panic", "build_cxx_node")>>
            /\ UNCHANGED <<inflight, cmds>>
       ELSE /\ cmds' = Append(cmds, Command("clang++",
                                            ClangArgs(os, frame.root, frame.paths,
                                                      frame.out_name, frame.args),
                                            ClangDir(cwd, frame.paths)))
            /\ Issue("clang++", "build_cxx_node.await")
            /\ trace' = trace \o <<Ev("enter", "build_cxx_node"), Ev("start", "clang++")>>
            /\ UNCHANGED result
    /\ UNCHANGED <<os, env_cargo, mode, k, cwd, fs, frame, canon, logs>>

\* Faulty variant: a compiler that exits with non-zero is run again.
BuildCxxNodeDoneRetries ==
    /\ pc = "build_cxx_node.await"
    /\ \E outcome \in Outcomes :
        LET dir == cmds[Len(cmds)].dir
            out == OutputPath(os, frame.out_name)
        IN  /\ outcome = "zero" =>
                    /\ \A i \in 1..Len(frame.paths) : Exists(fs, Real(dir, frame.paths[i]))
                    /\ Exists(fs, Parent(Real(dir, out)).path)
            /\ cmds' = Status(cmds, outcome)
            /\ Complete("clang++", outcome = "zero")
            /\ fs' = IF outcome = "zero" THEN Link(fs, dir, out) ELSE fs
            /\ IF outcome = "nonzero"
               THEN pc' = "build_cxx_node" /\ result' = result
               ELSE Try(outcome = "zero", IoError, frame.ret)
    /\ UNCHANGED <<os, env_cargo, mode, k, cwd, frame, canon, logs>>

\* if !clang.status().await?.success() { bail!("failed to compile c++ node") }; Ok(())
\* The compiler exits with zero only if it could read its inputs and write its output.
BuildCxxNodeDone ==
    /\ pc = "build_cxx_node.await"
    /\ \E outcome \in Outcomes :
        LET dir == cmds[Len(cmds)].dir
            out == OutputPath(os, frame.out_name)
        IN  /\ outcome = "zero" =>
                    /\ \A i \in 1..Len(frame.paths) : Exists(fs, Real(dir, frame.paths[i]))
                    /\ Exists(fs, Parent(Real(dir, out)).path)
            /\ cmds' = Status(cmds, outcome)
            /\ Complete("clang++", outcome = "zero")
            /\ fs' = IF outcome = "zero" THEN Link(fs, dir, out) ELSE fs
            /\ Try(outcome = "zero", StatusError(outcome, "failed to compile c++ node"),
                   frame.ret)
    /\ UNCHANGED <<os, env_cargo, mode, k, cwd, frame, canon, logs>>

----------------------------------------------------------------------------
(* run_dataflow *)

\* let cargo = std::env::var("CARGO").unwrap(); ...; cmd.status() is issued
RunDataflowSpawn ==
    /\ pc = "run_dataflow"
    /\ IF env_cargo = NotPresent
       THEN /\ Panic(UnwrapNotPresent)
            /\ trace' = trace \o <<Ev("enter", "run_dataflow"), Ev("panic", "run_dataflow")>>
            /\ UNCHANGED <<inflight, cmds>>
       ELSE /\ cmds' = Append(cmds, Command(env_cargo, RunDataflowArgs(frame.dataflow), cwd))
            /\ Issue("cargo run", "run_dataflow.await")
            /\ trace' = trace \o <<Ev("enter", "run_dataflow"), Ev("start", "cargo run")>>
            /\ UNCHANGED result
    /\ UNCHANGED <<os, env_cargo, mode, k, cwd, fs, frame, canon, logs>>

\* Faulty variant: the exit status is not looked at (`cmd.status().await?;`).
RunDataflowDoneIgnoresStatus ==
    /\ pc = "run_dataflow.await"
    /\ \E outcome \in Outcomes :
        /\ cmds' = Status(cmds, outcome)
        /\ inflight' = inflight \ {"cargo run"}
        /\ trace' = Append(trace, Ev(IF outcome = "zero" THEN "ok" ELSE "fail", "cargo run"))
        /\ pc' = IF outcome = "spawn_error" THEN "exit" ELSE frame.ret
        /\ result' = IF outcome = "spawn_error" THEN Err(IoError)
                     ELSE IF frame.ret = "exit" THEN Ok ELSE result
    /\ UNCHANGED <<os, env_cargo, mode, k, cwd, fs, frame, canon, logs>>

\* if !cmd.status().await?.success() { bail!("failed to run dataflow") }; Ok(())
RunDataflowDone ==
    /\ pc = "run_dataflow.await"
    /\ \E outcome \in Outcomes :
        /\ cmds' = Status(cmds, outcome)
        /\ Complete("cargo run", outcome = "zero")
        /\ Try(outcome = "zero", StatusError(outcome, "failed to run dataflow"), frame.ret)
    /\ UNCHANGED <<os, env_cargo, mode, k, cwd, fs, frame, canon, logs>>

----------------------------------------------------------------------------
(* Specifications. *)

CargoValues == {NotPresent, "/usr/bin/cargo"}

\* A run of the program: main is entered in the state the process starts in.
Init ==
    /\ os \in OSes
    /\ env_cargo \in CargoValues
    /\ mode = "main"
    /\ pc = "set_up_tracing"
    /\ k = 1
    /\ cwd = StartDir
    /\ \E main_cc \in BOOLEAN, stale \in BOOLEAN : fs = InitialFs(os, main_cc, stale)
    /\ frame = NoFrame
    /\ canon = <<>>
    /\ inflight = {}
    /\ trace = <<>>
    /\ cmds = <<>>
    /\ logs = <<>>
    /\ result = Running

Next ==
    \/ SetUpTracing
    \/ CfgWindows
    \/ SetCurrentDir
    \/ CreateDirAllStart
    \/ CreateDirAllDone
    \/ CallBuildPackage
    \/ BuildPackageSpawn
    \/ BuildPackageDone
    \/ CopyStart
    \/ CopyDone
    \/ Canonicalize
    \/ CallBuildCxxNode
    \/ BuildCxxNodeSpawn
    \/ BuildCxxNodeDone
    \/ CallRunDataflow
    \/ RunDataflowSpawn
    \/ RunDataflowDone
    \/ ReturnOk

Spec == Init /\ [][Next]_vars

\* The driver is the only thread of control and takes its next step whenever it has
\* one; every external operation it awaits is assumed to return.
FairSpec == Spec /\ WF_vars(Next)

BoundedSeq(S, n) == UNION {[1..m -> S] : m \in 0..n}

Packages == {"dora-node-api-cxx", "dora-cli"}

FeatureNames == {"ros2-bridge", "tracing"}

ExtraArgs == {"-l", "dora_node_api_cxx", "-O2"}

SourcePaths == {MainCc, StagedPath(3)}

OutNames == {"node_rust_api"}

Dataflows == {<<"dataflow.yml">>, <<"/", "tmp", "dataflow.yml">>}

UnitFrames ==
    {BuildPackageFrame(p, f, "exit") :
        p \in Packages, f \in BoundedSeq(FeatureNames, MaxFeatures)}
    \cup {BuildCxxNodeFrame(ManifestDir, ps, n, a, "exit") :
        ps \in BoundedSeq(SourcePaths, MaxPaths), n \in OutNames,
        a \in BoundedSeq(ExtraArgs, MaxArgs)}
    \cup {RunDataflowFrame(d, "exit") : d \in Dataflows}

\* One of the three functions called on its own, with any parameters, from the
\* example's directory.
InitFn ==
    /\ os \in OSes
    /\ env_cargo \in CargoValues
    /\ mode = "unit"
    /\ frame \in UnitFrames
    /\ pc = frame.fn
    /\ k = 1
    /\ cwd = ExampleRoot
    /\ \E main_cc \in BOOLEAN, stale \in BOOLEAN : fs = InitialFs(os, main_cc, stale)
    /\ canon = <<>>
    /\ inflight = {}
    /\ trace = <<>>
    /\ cmds = <<>>
    /\ logs = <<>>
    /\ result = Running

NextFn ==
    \/ BuildPackageSpawn
    \/ BuildPackageDone
    \/ BuildCxxNodeSpawn
    \/ BuildCxxNodeDone
    \/ RunDataflowSpawn
    \/ RunDataflowDone

SpecFn == InitFn /\ [][NextFn]_vars

TypeOK ==
    /\ os \in OSes
    /\ env_cargo \in CargoValues
    /\ mode \in {"main", "unit"}
    /\ k \in 1..Len(GeneratedArtifacts)
    /\ cwd \in {StartDir, ExampleRoot}
    /\ inflight \subseteq
        {"create_dir_all", "cargo build", "clang++", "cargo run"}
            \cup {CopyOp(i) : i \in 1..Len(GeneratedArtifacts)}
    /\ result.kind \in {"Running", "Ok", "Err", "Panic"}
    /\ (pc = "exit") = (result.kind # "Running")

----------------------------------------------------------------------------
(* Vocabulary of the properties. *)

Has(e) == \E i \in DOMAIN trace : trace[i] = e

Exited == pc = "exit"

Supported == os # "windows"

CopyOps == {CopyOp(i) : i \in 1..Len(GeneratedArtifacts)}

\* The stage an event starts work of: 1 Dependency Builder, 2 Artifact Stager,
\* 3 Native Compiler Invoker, 4 Execution Handoff; 0 for any other event.
StageOf(e) ==
    IF e.ev \notin {"enter", "start"} THEN 0
    ELSE IF e.op \in {"build_package", "cargo build"} THEN 1
    ELSE IF e.op \in CopyOps THEN 2
    ELSE IF e.op \in {"build_cxx_node", "clang++"} THEN 3
    ELSE IF e.op \in {"run_dataflow", "cargo run"} THEN 4
    ELSE 0

\* The event with which a stage has returned success.
StageSuccess(s) ==
    CASE s = 1 -> Ev("ok", "cargo build")
      [] s = 2 -> Ev("ok", "copy dora-ros2-bindings.h")
      [] s = 3 -> Ev("ok", "clang++")
      [] s = 4 -> Ev("ok", "cargo run")

IsFailure(e) == e.ev \in {"fail", "panic"}

Spawned(program) == \E i \in DOMAIN cmds : cmds[i].program = program

WrittenByRun == {p \in DOMAIN fs : fs[p].origin \notin {"repo", "prev"}}

----------------------------------------------------------------------------
(* C1: on a supported host OS the stages start only in the order Dependency *)
(* Builder, Artifact Stager, Native Compiler Invoker, Execution Handoff; a  *)
(* stage starts only after its predecessor has returned success; after any  *)
(* failure no stage work is started; and if the Dependency Builder fails    *)
(* there is no copy, no compiler invocation and no execution handoff.       *)
C1_StagesInOrder ==
    Supported =>
        /\ \A i \in DOMAIN trace :
            LET s == StageOf(trace[i])
            IN  s > 0 =>
                    /\ \A j \in 1..(i - 1) :
                        /\ StageOf(trace[j]) <= s
                        /\ ~IsFailure(trace[j])
                    /\ s > 1 => \E j \in 1..(i - 1) : trace[j] = StageSuccess(s - 1)
        /\ (Has(Ev("fail", "cargo build")) \/ Has(Ev("panic", "build_package"))) =>
            /\ \A i \in DOMAIN trace : StageOf(trace[i]) \in {0, 1}
            /\ ~Spawned("clang++")
            /\ Len(cmds) <= 1
            /\ WrittenByRun \subseteq {BuildPath}

\* C1: the Dependency Builder has failed and the run is over.
C1_Witness ==
    /\ Supported
    /\ Exited
    /\ Has(Ev("fail", "cargo build"))
    /\ result.kind = "Err"

----------------------------------------------------------------------------
(* C2: the four generated files are copied one at a time in the order       *)
(* dora-node-api.cc, dora-node-api.h, dora-ros2-bindings.cc,                *)
(* dora-ros2-bindings.h; when copy i fails, copies i+1..4 are never         *)
(* attempted, copies 1..i-1 have been performed, and the compiler is never  *)
(* invoked.                                                                 *)
CopiedFiles ==
    <<"dora-node-api.cc", "dora-node-api.h", "dora-ros2-bindings.cc", "dora-ros2-bindings.h">>

CopyOrder == [i \in DOMAIN CopiedFiles |-> "copy " \o CopiedFiles[i]]

Range(f) == {f[i] : i \in DOMAIN f}

IsCopyStart(e) == e.ev = "start" /\ e.op \in Range(CopyOrder)

CopiesStarted == SelectSeq(trace, IsCopyStart)

C2_CopiesInOrderFailFast ==
    /\ Len(CopiesStarted) <= Len(CopyOrder)
    /\ \A n \in DOMAIN CopiesStarted : CopiesStarted[n].op = CopyOrder[n]
    /\ Cardinality(inflight \cap Range(CopyOrder)) <= 1
    /\ \A i \in DOMAIN CopyOrder :
        /\ Has(Ev("start", CopyOrder[i])) =>
            \A j \in 1..(i - 1) :
                /\ Has(Ev("ok", CopyOrder[j]))
                /\ Exists(fs, Real(ExampleRoot, <<"build", CopiedFiles[j]>>))
                /\ fs[Real(ExampleRoot, <<"build", CopiedFiles[j]>>)].origin = "copy"
        /\ Has(Ev("fail", CopyOrder[i])) =>
            /\ \A j \in (i + 1)..Len(CopyOrder) : ~Has(Ev("start", CopyOrder[j]))
            /\ ~Has(Ev("enter", "build_cxx_node"))
            /\ ~Spawned("clang++")
            /\ Exited => result.kind = "Err"

\* C2: the third copy failed after the first two were performed.
C2_Witness ==
    /\ Exited
    /\ Has(Ev("fail", "copy dora-ros2-bindings.cc"))
    /\ Has(Ev("ok", "copy dora-node-api.h"))

----------------------------------------------------------------------------
(* C3 as stated: on Windows every finished run has mutated nothing, started *)
(* no subprocess, and reports success.                                      *)
NoMutationNoSubprocess ==
    /\ cwd = StartDir
    /\ WrittenByRun = {}
    /\ cmds = <<>>
    /\ inflight = {}
    /\ \A i \in DOMAIN trace : trace[i].op = "set_up_tracing"

C3_Original ==
    (os = "windows" /\ Exited) => (NoMutationNoSubprocess /\ result = Ok)

(* C3, amended: on Windows a run never changes the working directory,       *)
(* creates or copies nothing and starts no subprocess; it reports success   *)
(* when tracing initialization succeeded, and the tracing failure           *)
(* otherwise.                                                               *)
C3_WindowsSkip ==
    os = "windows" =>
        /\ NoMutationNoSubprocess
        /\ Exited =>
            IF Has(Ev("ok", "set_up_tracing"))
            THEN result = Ok
            ELSE result.kind = "Err" /\ result.chain[1] = "failed to set up tracing"

\* C3: a finished, successful run on Windows.
C3_Witness ==
    /\ os = "windows"
    /\ Exited
    /\ result = Ok
    /\ Has(Ev("ok", "set_up_tracing"))

----------------------------------------------------------------------------
(* C4: on a supported host OS the run returns success only if tracing       *)
(* setup, working-directory setup, build-directory creation, the dependency *)
(* build, all four copies, the compile and the execution handoff each       *)
(* returned success; the only successful run that has not executed all      *)
(* stages is the platform skip.                                             *)
EveryStep ==
    {"set_up_tracing", "set_current_dir", "create_dir_all", "cargo build",
     "clang++", "cargo run"} \cup Range(CopyOrder)

C4_SuccessOnlyIfAll ==
    result.kind = "Ok" =>
        /\ Exited
        /\ \A i \in DOMAIN trace : ~IsFailure(trace[i])
        /\ IF Supported
           THEN \A op \in EveryStep : Has(Ev("start", op)) /\ Has(Ev("ok", op))
           ELSE \A op \in EveryStep \ {"set_up_tracing"} : ~Has(Ev("start", op))

\* C4: a successful run on a supported host OS.
C4_Witness ==
    /\ Supported
    /\ result.kind = "Ok"
    /\ Has(Ev("ok", "cargo run"))

----------------------------------------------------------------------------
(* C5 as stated: when a stage is the first to fail, the error the run ends  *)
(* with carries a context naming that stage; at the least it is more than   *)
(* the bare OS error.                                                       *)
FailedStage ==
    IF Has(Ev("fail", "cargo build")) THEN 1
    ELSE IF \E op \in Range(CopyOrder) : Has(Ev("fail", op)) THEN 2
    ELSE IF Has(Ev("fail", "clang++")) THEN 3
    ELSE IF Has(Ev("fail", "cargo run")) THEN 4
    ELSE 0

C5_StageAttributed ==
    (Exited /\ FailedStage > 0) =>
        /\ result.kind = "Err"
        /\ result.chain # <<>>
        /\ result.chain[1] # "os error"

----------------------------------------------------------------------------
(* C6 as stated: when CARGO is not set, the Dependency Builder and the      *)
(* Execution Handoff fail with an error that is returned as the run's       *)
(* result; the run does not panic.                                          *)
C6_ConfigurationError ==
    (env_cargo = NotPresent
        /\ (Has(Ev("enter", "build_package")) \/ Has(Ev("enter", "run_dataflow")))
        /\ Exited)
    => result.kind = "Err"

----------------------------------------------------------------------------
(* C7: for every host OS of the documented table and every list of caller   *)
(* flags, the compiler's arguments are the source paths in order, then      *)
(* -std=c++17, then that OS's documented link flags, then the caller's      *)
(* flags, then -L <dependency binary dir>, then --output <path>.            *)
DocumentedWindowsLibs ==
    <<"advapi32", "userenv", "kernel32", "ws2_32", "bcrypt", "ncrypt", "schannel", "ntdll",
      "iphlpapi", "cfgmgr32", "credui", "crypt32", "cryptnet", "fwpuclnt", "gdi32",
      "msimg32", "mswsock", "ole32", "opengl32", "secur32", "shell32", "synchronization",
      "user32", "winspool">>

DocumentedLinkFlags ==
    [linux |-> <<"-l", "m", "-l", "rt", "-l", "dl", "-pthread">>,
     macos |-> <<"-framework", "CoreServices", "-framework", "Security", "-l", "System",
                 "-l", "resolv", "-l", "pthread", "-l", "c", "-l", "m">>,
     windows |-> [i \in DOMAIN DocumentedWindowsLibs |-> "-l" \o DocumentedWindowsLibs[i]]
                    \o <<"-Wl,-nodefaultlib:libcmt", "-D_DLL", "-lmsvcrt">>]

DocumentedArgs(o, paths, out_name, args) ==
    [i \in DOMAIN paths |-> PathArg(paths[i])]
        \o <<"-std=c++17">>
        \o DocumentedLinkFlags[o]
        \o args
        \o <<"-L", "/ws/target/debug">>
        \o <<"--output", "../build/" \o out_name \o (IF o = "windows" THEN ".exe" ELSE "")>>

C7_CompilerArguments ==
    \A i \in DOMAIN cmds :
        (cmds[i].program = "clang++" /\ frame.fn = "build_cxx_node"
            /\ os \in DOMAIN DocumentedLinkFlags) =>
            cmds[i].args = DocumentedArgs(os, frame.paths, frame.out_name, frame.args)

\* C7: the compiler was invoked on macOS with two sources and two caller flags.
C7_Witness ==
    /\ os = "macos"
    /\ Spawned("clang++")
    /\ Len(frame.paths) = 2
    /\ frame.args = <<"-l", "dora_node_api_cxx">>

----------------------------------------------------------------------------
(* C8: the driver's working directory is the example's root before any step *)
(* that uses a relative path, and stays the example's root from then on,    *)
(* during the compile call and after it; only the compiler process runs in  *)
(* another directory.                                                       *)
BeforeWorkingDir == {"set_up_tracing", "cfg_windows", "set_current_dir"}

C8_WorkingDirectory ==
    /\ (~Exited /\ pc \notin BeforeWorkingDir) => cwd = ExampleRoot
    /\ Has(Ev("ok", "set_current_dir")) => cwd = ExampleRoot
    /\ \A i \in DOMAIN trace :
        trace[i].op \notin {"set_up_tracing", "set_current_dir"} =>
            \E j \in 1..(i - 1) : trace[j] = Ev("ok", "set_current_dir")
    /\ \A i \in DOMAIN cmds :
        cmds[i].dir = IF cmds[i].program = "clang++"
                      THEN <<"/", "ws", "dora-hardware", "example_test", "cxx_ros2_dataflow",
                             "node-rust-api">>
                      ELSE ExampleRoot
    /\ WrittenByRun \subseteq {p \in DOMAIN fs : SubSeq(p, 1, Len(ExampleRoot)) = ExampleRoot}
                                \cup {GeneratedPath(i) : i \in 1..Len(GeneratedArtifacts)}

\* C8: the compile call is in progress (or over) and the driver is still in the
\* example's root while the compiler runs elsewhere.
C8_Witness ==
    /\ Has(Ev("start", "clang++"))
    /\ cwd = ExampleRoot
    /\ cmds[Len(cmds)].dir # cwd

----------------------------------------------------------------------------
(* C9: the pipeline's state machine. *)
Phase ==
    IF pc = "exit" THEN (IF result.kind = "Ok" THEN "Completed" ELSE "Aborted")
    ELSE IF pc \in {"set_up_tracing", "cfg_windows", "set_current_dir", "create_dir_all",
                    "create_dir_all.await", "call build_package"} THEN "Unconfigured"
    ELSE IF pc \in {"build_package", "build_package.await"} THEN "BuildingDependency"
    ELSE IF pc \in {"copy", "copy.await"} THEN "StagingArtifacts"
    ELSE IF pc \in {"canonicalize", "call build_cxx_node", "build_cxx_node",
                    "build_cxx_node.await"} THEN "Compiling"
    ELSE "Running"

Terminal == {"Completed", "Aborted"}

Successor ==
    [Unconfigured |-> "BuildingDependency", BuildingDependency |-> "StagingArtifacts",
     StagingArtifacts |-> "Compiling", Compiling |-> "Running", Running |-> "Completed"]

\* A step of the state machine as stated: stay, advance to the successor, or abort.
StatedStep(p, q) ==
    \/ q = p
    \/ p \notin Terminal /\ q = Successor[p]
    \/ p \notin Terminal /\ q = "Aborted"

Effects == <<cwd, fs, cmds, inflight, trace>>

(* C9 as stated: every step of a run is a step of the state machine         *)
(* Unconfigured -> BuildingDependency -> StagingArtifacts -> Compiling ->   *)
(* Running -> Completed, or a step to Aborted.                              *)
C9_Original ==
    [][StatedStep(Phase, Phase')]_vars

(* C9, amended: every step of a run is a step of that state machine or, on  *)
(* the excepted platform, the step from Unconfigured straight to Completed; *)
(* Completed and Aborted (an error returned from main, or a panic) are      *)
(* terminal: nothing is invoked or written once either is reached; and if   *)
(* every external operation returns, every run reaches one of them.         *)
C9_StateMachine ==
    /\ [][/\ \/ StatedStep(Phase, Phase')
             \/ os = "windows" /\ Phase = "Unconfigured" /\ Phase' = "Completed"
          /\ Phase \in Terminal => (Phase' = Phase /\ Effects' = Effects)]_vars
    /\ <>(Phase \in Terminal)
    /\ [](Phase \in Terminal => [](Phase \in Terminal))

\* C9: the platform skip has completed a run that never built anything.
C9_Witness ==
    /\ os = "windows"
    /\ Phase = "Completed"
    /\ ~Has(Ev("enter", "build_package"))

----------------------------------------------------------------------------
(* C10: a run in which the dependency build, the four copies, the compile   *)
(* and the handoff succeed ends with success and with exactly one           *)
(* executable file in build/; a run in which a generated file is missing    *)
(* after a successful dependency build fails in the staging stage, never    *)
(* invokes the compiler and produces no executable.                         *)
Executables == {p \in DOMAIN fs : fs[p].kind = "exe"}

InBuild(p) == Parent(p).path = <<"/", "ws", "dora-hardware", "example_test",
                                 "cxx_ros2_dataflow", "build">>

SomeArtifactMissing ==
    \E i \in DOMAIN CopiedFiles :
        ~Exists(fs, <<"/", "ws", "target", "cxxbridge", "dora-node-api-cxx", CopiedFiles[i]>>)

C10_EndToEnd ==
    Exited =>
        /\ (\A op \in {"cargo build", "clang++", "cargo run"} \cup Range(CopyOrder) :
                Has(Ev("ok", op))) =>
            /\ result = Ok
            /\ Cardinality({p \in Executables : InBuild(p)}) = 1
            /\ \A p \in Executables : InBuild(p) /\ fs[p].origin = "clang++"
        /\ (Has(Ev("ok", "cargo build")) /\ SomeArtifactMissing) =>
            /\ result.kind = "Err"
            /\ FailedStage = 2
            /\ ~Spawned("clang++")
            /\ \A p \in Executables : fs[p].origin = "prev"

\* C10: a generated header was missing and the run has ended in the staging stage.
C10_Witness ==
    /\ Exited
    /\ Has(Ev("ok", "cargo build"))
    /\ ~Exists(fs, <<"/", "ws", "target", "cxxbridge", "dora-node-api-cxx", "dora-node-api.h">>)
    /\ Has(Ev("fail", "copy dora-node-api.h"))

----------------------------------------------------------------------------
(* C11: there is no retry: in a run the toolchain build command, each of    *)
(* the four copies, the compiler and the execution-handoff command are each *)
(* invoked at most once, whether they succeed or fail.                      *)
Count(e) == Cardinality({i \in DOMAIN trace : trace[i] = e})

CountCmds(program, first) ==
    Cardinality({i \in DOMAIN cmds : cmds[i].program = program /\ cmds[i].args[1] = first})

C11_NoRetry ==
    /\ \A op \in {"cargo build", "clang++", "cargo run"} \cup Range(CopyOrder) :
        /\ Count(Ev("start", op)) <= 1
        /\ Count(Ev("ok", op)) + Count(Ev("fail", op)) <= Count(Ev("start", op))
    /\ Cardinality({i \in DOMAIN cmds : cmds[i].program = "clang++"}) <= 1
    /\ CountCmds("/usr/bin/cargo", "build") <= 1
    /\ CountCmds("/usr/bin/cargo", "run") <= 1
    /\ Len(cmds) <= 3

\* C11: the compiler was invoked once, failed, and the run is over.
C11_Witness ==
    /\ Exited
    /\ Has(Ev("fail", "clang++"))
    /\ Count(Ev("start", "clang++")) = 1

----------------------------------------------------------------------------
(* C12: there is no partial-result cleanup: no step of a run removes a path *)
(* or changes a file this run has written, and the step that aborts the run *)
(* leaves the disk, build/ and everything in it included, as it is.         *)
C12_NoCleanup ==
    [][/\ \A p \in DOMAIN fs :
            /\ p \in DOMAIN fs'
            /\ fs[p].origin \notin {"repo", "prev"} => fs'[p] = fs[p]
       /\ (pc' = "exit" /\ result'.kind \in {"Err", "Panic"}) => fs' = fs]_vars

\* C12: the run was aborted by the execution handoff; the staged files and the
\* executable it wrote are in build/.
C12_Witness ==
    /\ Exited
    /\ Has(Ev("fail", "cargo run"))
    /\ \A i \in DOMAIN CopiedFiles :
        /\ Exists(fs, Real(ExampleRoot, <<"build", CopiedFiles[i]>>))
        /\ fs[Real(ExampleRoot, <<"build", CopiedFiles[i]>>)].origin = "copy"
    /\ \E p \in Executables : InBuild(p) /\ fs[p].origin = "clang++"

----------------------------------------------------------------------------
(* C13: at every point of a run at most one external operation issued by    *)
(* the driver is in flight: an operation is issued only after the one       *)
(* before it has completed.                                                 *)
Starts(n) == Cardinality({i \in 1..n : trace[i].ev = "start"})

Ends(n) == Cardinality({i \in 1..n : trace[i].ev \in {"ok", "fail"}})

AwaitPoints ==
    {"create_dir_all.await", "build_package.await", "copy.await", "build_cxx_node.await",
     "run_dataflow.await"}

C13_OneAtATime ==
    /\ Cardinality(inflight) <= 1
    /\ (inflight # {}) = (pc \in AwaitPoints)
    /\ \A n \in 0..Len(trace) : Starts(n) - Ends(n) \in {0, 1}
    /\ Starts(Len(trace)) - Ends(Len(trace)) = Cardinality(inflight)

\* C13: the compiler is running and nothing else is in flight.
C13_Witness ==
    /\ inflight = {"clang++"}
    /\ pc = "build_cxx_node.await"

----------------------------------------------------------------------------
(* C14 as stated: on the excepted platform the early exit emits one notice, *)
(* of warning level and not of error level, and the run returns success.    *)
C14_WarningNotice ==
    (os = "windows" /\ Exited /\ Has(Ev("ok", "set_up_tracing"))) =>
        /\ result = Ok
        /\ Len(logs) = 1
        /\ logs[1].level = "WARN"

----------------------------------------------------------------------------
(* C15: for every package name and feature list, build_package's command    *)
(* line is build --package <name>, followed by --features <the features     *)
(* joined by ','> if and only if the list is not empty; it returns the      *)
(* failure naming the package exactly when the process exits with non-zero, *)
(* and success when it exits with zero.                                     *)
RECURSIVE CommaJoined(_)
CommaJoined(f) ==
    IF Len(f) = 1 THEN f[1]
    ELSE CommaJoined(SubSeq(f, 1, Len(f) - 1)) \o "," \o f[Len(f)]

NamesPackage(r, package) == r = Err(<<"failed to compile " \o package>>)

C15_BuildPackage ==
    (mode = "unit" /\ frame.fn = "build_package") =>
        \A i \in DOMAIN cmds :
            /\ SubSeq(cmds[i].args, 1, 3) = <<"build", "--package", frame.package>>
            /\ IF frame.features = <<>>
               THEN Len(cmds[i].args) = 3
               ELSE /\ Len(cmds[i].args) = 5
                    /\ cmds[i].args[4] = "--features"
                    /\ cmds[i].args[5] = CommaJoined(frame.features)
            /\ NamesPackage(result, frame.package) = (cmds[i].status = "nonzero")
            /\ cmds[i].status = "zero" => result = Ok
            /\ cmds[i].status = "running" => result = Running

\* C15: a build with two features has exited with non-zero.
C15_Witness ==
    /\ mode = "unit"
    /\ frame.fn = "build_package"
    /\ Len(frame.features) = 2
    /\ cmds # <<>>
    /\ cmds[1].status = "nonzero"
    /\ NamesPackage(result, frame.package)

----------------------------------------------------------------------------
(* C16: tracing initialization precedes the host-OS check: when it fails    *)
(* the run returns failure on every platform, the excepted one included,    *)
(* and no later step (platform check, directory setup, any stage) is        *)
(* performed.                                                               *)
C16_TracingFirst ==
    /\ \A i \in DOMAIN trace :
        trace[i].op # "set_up_tracing" => Has(Ev("ok", "set_up_tracing"))
    /\ logs # <<>> => Has(Ev("ok", "set_up_tracing"))
    /\ Has(Ev("fail", "set_up_tracing")) =>
        /\ Exited
        /\ result.kind = "Err"
        /\ result.chain[1] = "failed to set up tracing"
        /\ Len(trace) = 2
        /\ logs = <<>>
        /\ cwd = StartDir
        /\ cmds = <<>>
        /\ WrittenByRun = {}

\* C16: tracing initialization has failed on the excepted platform.
C16_Witness ==
    /\ os = "windows"
    /\ Has(Ev("fail", "set_up_tracing"))
    /\ result.kind = "Err"

----------------------------------------------------------------------------
(* C17 as stated: a run that aborts in the Dependency Builder has already   *)
(* mutated the filesystem: it has created build/.                           *)
BuildLiteral == <<"/", "ws", "dora-hardware", "example_test", "cxx_ros2_dataflow", "build">>

AbortedInDependencyBuilder ==
    /\ Exited
    /\ Has(Ev("fail", "cargo build")) \/ Has(Ev("panic", "build_package"))

C17_Original ==
    (Supported /\ AbortedInDependencyBuilder) => BuildLiteral \in WrittenByRun

(* C17, amended: on a supported host OS the working-directory change and    *)
(* the create_dir_all of build/ have succeeded before the Dependency        *)
(* Builder is invoked, so from BuildingDependency onwards build/ exists; a  *)
(* run that aborts in the Dependency Builder has created build/ unless it   *)
(* was already there, and has written nothing else, no stage having         *)
(* succeeded.                                                               *)
C17_BuildDirFirst ==
    (Supported /\ (Has(Ev("enter", "build_package"))
                    \/ Phase \notin {"Unconfigured", "Completed", "Aborted"})) =>
        /\ cwd = ExampleRoot
        /\ Has(Ev("ok", "set_current_dir"))
        /\ Has(Ev("ok", "create_dir_all"))
        /\ \A i \in DOMAIN trace :
            trace[i] = Ev("enter", "build_package") =>
                \E j \in 1..(i - 1) : trace[j] = Ev("ok", "create_dir_all")
        /\ Exists(fs, BuildLiteral)
        /\ fs[BuildLiteral].kind = "dir"
        /\ fs[BuildLiteral].origin \in {"create_dir_all", "prev"}
        /\ AbortedInDependencyBuilder =>
            /\ WrittenByRun \subseteq {BuildLiteral}
            /\ \A s \in 1..4 : ~Has(StageSuccess(s))

\* C17: the Dependency Builder has aborted a run that had created build/.
C17_Witness ==
    /\ Supported
    /\ AbortedInDependencyBuilder
    /\ BuildLiteral \in WrittenByRun

----------------------------------------------------------------------------
(* C18: between staging and compiling the three compile inputs are          *)
(* canonicalized in the order node-rust-api/main.cc,                        *)
(* build/dora-ros2-bindings.cc, build/dora-node-api.cc; if one of them      *)
(* fails the run aborts without invoking the compiler; and whenever the     *)
(* compiler is invoked, both staged .cc inputs are destinations of copies   *)
(* that succeeded in this run.                                              *)
CanonOrder ==
    <<"canonicalize node-rust-api/main.cc", "canonicalize build/dora-ros2-bindings.cc",
      "canonicalize build/dora-node-api.cc">>

IsCanonStart(e) == e.ev = "start" /\ e.op \in Range(CanonOrder)

CanonStarted == SelectSeq(trace, IsCanonStart)

CanonArgs ==
    <<"/ws/dora-hardware/example_test/cxx_ros2_dataflow/node-rust-api/main.cc",
      "/ws/dora-hardware/example_test/cxx_ros2_dataflow/build/dora-ros2-bindings.cc",
      "/ws/dora-hardware/example_test/cxx_ros2_dataflow/build/dora-node-api.cc">>

C18_CanonicalizeThenCompile ==
    /\ Len(CanonStarted) <= Len(CanonOrder)
    /\ \A n \in DOMAIN CanonStarted : CanonStarted[n].op = CanonOrder[n]
    /\ \A i \in DOMAIN trace :
        trace[i].op \in Range(CanonOrder) =>
            /\ \E j \in 1..(i - 1) : trace[j] = Ev("ok", "copy dora-ros2-bindings.h")
            /\ \A j \in 1..(i - 1) : trace[j].op \notin {"build_cxx_node", "clang++"}
    /\ \A n \in DOMAIN CanonOrder :
        Has(Ev("fail", CanonOrder[n])) =>
            /\ Exited
            /\ result.kind = "Err"
            /\ \A m \in (n + 1)..Len(CanonOrder) : ~Has(Ev("start", CanonOrder[m]))
            /\ ~Has(Ev("enter", "build_cxx_node"))
            /\ ~Spawned("clang++")
    /\ Spawned("clang++") =>
        /\ \A n \in DOMAIN CanonOrder : Has(Ev("ok", CanonOrder[n]))
        /\ \A f \in {"dora-ros2-bindings.cc", "dora-node-api.cc"} :
            /\ Has(Ev("ok", "copy " \o f))
            /\ Exists(fs, BuildLiteral \o <<f>>)
            /\ fs[BuildLiteral \o <<f>>].origin = "copy"
        /\ \A i \in DOMAIN cmds :
            cmds[i].program = "clang++" => SubSeq(cmds[i].args, 1, 3) = CanonArgs

\* C18: the compiler has been invoked on the three canonicalized inputs.
C18_Witness ==
    /\ Spawned("clang++")
    /\ Has(Ev("ok", "canonicalize build/dora-node-api.cc"))
    /\ canon # <<>>

====
